---------------------------- MODULE Spec2Model ----------------------------
(***************************************************************************)
(* Model of export_3mf.py: the per-triangle layer colouring, the           *)
(* paint_color encoding, the 3MF post-processing pass and the two export   *)
(* pipelines (export_multicolor_3mf and the command line main).            *)
(*                                                                         *)
(* Lengths are integers in an arbitrary unit; the centroid and its         *)
(* quotient by the layer height are kept as exact fractions num/den, so    *)
(* int() and % act on the exact quotient (binary floating point rounding   *)
(* is not modelled).  Text is a sequence of one-character strings.         *)
(***************************************************************************)
EXTENDS Integers, Sequences, FiniteSets, TLC

VARIABLES
    entry,          \* the operation being run
    pc,             \* position inside it
    err,            \* the exception that ended it, or "none"
    colors,         \* the colours argument: [none |-> BOOLEAN, list |-> Seq]
    layer_height,   \* the layer_height argument
    mesh,           \* the geometry of the part / of the input STL file
    vertices,       \* local: sequence of vertex Z coordinates
    faces,          \* local: sequence of triangles, each <<i0, i1, i2>> (0-based)
    num_colors,     \* argument of _compute_tri_colors
    tri_colors,     \* its result
    extruder_idx,   \* argument of _encode_paint_color
    paint,          \* its result
    fs,             \* the file system: path -> file content
    tmf_path,       \* arguments of _inject_paint_colors
    out_path,
    model_xml,      \* locals of _inject_paint_colors
    other_files,
    new_xml,
    fs0,            \* history: the file system when the run began
    touched         \* history: paths created or written by the run

vars == <<entry, pc, err, colors, layer_height, mesh, vertices, faces,
          num_colors, tri_colors, extruder_idx, paint, fs, tmf_path,
          out_path, model_xml, other_files, new_xml, fs0, touched>>

-----------------------------------------------------------------------------
(* Bounds of the model *)

MaxZ == 2
MaxTris == 2
MaxLayerHeight == 2
MaxColors == 3
MaxExtruderIdx == 60

ZRange == (0 - MaxZ)..MaxZ

-----------------------------------------------------------------------------
(* Python arithmetic *)

Abs(x) == IF x < 0 THEN 0 - x ELSE x

\* int(q) for the exact fraction q = num/den, den # 0: truncation toward zero
PyInt(q) ==
    LET n == Abs(q.num) \div Abs(q.den)
    IN  IF (q.num < 0) = (q.den < 0) THEN n ELSE 0 - n

\* a % n for n > 0, with the sign of a kept as C's % keeps it
TruncMod(a, n) == IF a >= 0 THEN a % n ELSE 0 - ((0 - a) % n)

\* a % n for n > 0: Python's result has the sign of n, it is in 0..n-1
PyMod(a, n) == a % n

RECURSIVE Pow2(_)
Pow2(k) == IF k = 0 THEN 1 ELSE 2 * Pow2(k - 1)

\* the shift count taken as a factor
TimesInsteadOfShift(x, k) == x * k

\* x << k on Python's unbounded integers
ShiftLeft(x, k) == x * Pow2(k)

UpperHexDigits ==
    <<"0", "1", "2", "3", "4", "5", "6", "7", "8", "9", "A", "B", "C", "D", "E", "F">>

RECURSIVE HexOfNat(_)
HexOfNat(n) ==
    IF n < 16 THEN <<UpperHexDigits[n + 1]>>
    ELSE HexOfNat(n \div 16) \o <<UpperHexDigits[(n % 16) + 1]>>

\* format(n, "X"): uppercase hexadecimal, no prefix, no padding, "-" for n < 0
PyFormatX(n) == IF n < 0 THEN <<"-">> \o HexOfNat(0 - n) ELSE HexOfNat(n)

-----------------------------------------------------------------------------
(* _encode_paint_color *)

\* the encoding with the 0-based index taken as the state (state = extruder_idx)
EncodeWithoutOffset(idx) == PyFormatX(ShiftLeft(idx, 2))

_encode_paint_color(idx) ==
    LET state == idx + 1
    IN  PyFormatX(ShiftLeft(state, 2))

-----------------------------------------------------------------------------
(* _compute_tri_colors *)

\* the Z of only the first corner, three times
SumOfFirstCornerOnly(vs, t) == 3 * vs[t[1] + 1]

\* v0.Coordinates[2] + v1.Coordinates[2] + v2.Coordinates[2]
SumZ(vs, t) == vs[t[1] + 1] + vs[t[2] + 1] + vs[t[3] + 1]

\* z = (...) / 3.0
CentroidZ(vs, t) == [num |-> SumZ(vs, t), den |-> 3]

\* z / layer_height, for layer_height # 0
DivByLayerHeight(z, lh) == [num |-> z.num, den |-> z.den * lh]

\* layer_idx = int(z / layer_height)
LayerIdx(vs, t, lh) == PyInt(DivByLayerHeight(CentroidZ(vs, t), lh))

\* one iteration of the loop: the value appended for triangle t
TriColor(vs, t, lh, n) == PyMod(LayerIdx(vs, t, lh), n)

\* whether the loop raises ZeroDivisionError (z / 0 or layer_idx % 0)
ComputeRaises(fcs, lh, n) == Len(fcs) > 0 /\ (lh = 0 \/ n = 0)

RECURSIVE CollectTriColors(_, _, _, _)
CollectTriColors(vs, fcs, lh, n) ==
    IF fcs = <<>> THEN <<>>
    ELSE <<TriColor(vs, Head(fcs), lh, n)>> \o CollectTriColors(vs, Tail(fcs), lh, n)

_compute_tri_colors(vs, fcs, lh, n) == CollectTriColors(vs, fcs, lh, n)

-----------------------------------------------------------------------------
(* Files, archives and the model document *)

NS_3MF == "http://schemas.microsoft.com/3dmanufacturing/core/2015/02"

ModelEntry == "3D/3dmodel.model"

OtherEntryNames == {"[Content_Types].xml", "_rels/.rels"}

\* the bytes of an auxiliary archive entry
RawBytes(name) == [raw |-> name]

OldFile == [kind |-> "old"]

EmptyFile == [kind |-> "empty"]

StlFile(m) == [kind |-> "stl", mesh |-> m]

\* a zip archive: entries by name, and whether its central directory was written
ZipFile(ents, isClosed) == [kind |-> "zip", entries |-> ents, closed |-> isClosed]

NoEntries == [n \in {} |-> RawBytes(n)]

Element(tg, at) == [ns |-> NS_3MF, tag |-> tg, attrs |-> at]

\* the model document lib3mf writes for one mesh object and one build item,
\* as its elements in document order: the vertices, the triangles in the
\* order of faces, then the build item
BasicModelDocument(vs, fcs) ==
    [i \in 1..Len(vs) |-> Element("vertex", [z |-> vs[i]])]
    \o [j \in 1..Len(fcs) |->
           Element("triangle", [v1 |-> fcs[j][1], v2 |-> fcs[j][2], v3 |-> fcs[j][3]])]
    \o <<Element("item", [objectid |-> 1])>>

WellFormed(elems) == [wf |-> TRUE, elems |-> elems]

Malformed == [wf |-> FALSE, elems |-> <<>>]

\* the archive _write_basic_3mf leaves at out_path
BasicArchive(vs, fcs) ==
    ZipFile([n \in OtherEntryNames \cup {ModelEntry} |->
                IF n = ModelEntry THEN WellFormed(BasicModelDocument(vs, fcs))
                ELSE RawBytes(n)], TRUE)

\* tri_elem.set(name, value)
SetAttr(e, name, value) ==
    [e EXCEPT !.attrs = [a \in DOMAIN e.attrs \cup {name} |->
                            IF a = name THEN value ELSE e.attrs[a]]]

IsTriangle(e) == e.ns = NS_3MF /\ e.tag = "triangle"

\* the loop with tri_idx left where it is after a triangle is painted
RECURSIVE PaintWithoutAdvance(_, _, _)
PaintWithoutAdvance(elems, cols, tri_idx) ==
    IF elems = <<>> THEN <<>>
    ELSE IF IsTriangle(Head(elems)) /\ tri_idx < Len(cols)
         THEN <<SetAttr(Head(elems), "paint_color", _encode_paint_color(cols[tri_idx + 1]))>>
              \o PaintWithoutAdvance(Tail(elems), cols, tri_idx)
         ELSE <<Head(elems)>> \o PaintWithoutAdvance(Tail(elems), cols, tri_idx)

\* the loop over root.iter(triangle), from the element at the head of elems on
RECURSIVE PaintFrom(_, _, _)
PaintFrom(elems, cols, tri_idx) ==
    IF elems = <<>> THEN <<>>
    ELSE IF IsTriangle(Head(elems)) /\ tri_idx < Len(cols)
         THEN <<SetAttr(Head(elems), "paint_color", _encode_paint_color(cols[tri_idx + 1]))>>
              \o PaintFrom(Tail(elems), cols, tri_idx + 1)
         ELSE <<Head(elems)>> \o PaintFrom(Tail(elems), cols, tri_idx)

\* the metadata element appended to the root
PaintingVersionMetadata ==
    [ns |-> NS_3MF, tag |-> "metadata",
     attrs |-> [name |-> "BambuStudio:MmPaintingVersion"], text |-> "0"]

\* the document after the painting loop and the metadata element
RewriteModel(elems, cols) == Append(PaintFrom(elems, cols, 0), PaintingVersionMetadata)

\* the entries read into other_files, without the relationship descriptor
EntriesWithoutRels(ents) ==
    [n \in DOMAIN ents \ {ModelEntry, "_rels/.rels"} |-> ents[n]]

\* other_files: every entry of the archive but the model document
OtherEntries(ents) == [n \in DOMAIN ents \ {ModelEntry} |-> ents[n]]

\* zout.writestr(name, data)
WriteStr(file, name, data) ==
    [file EXCEPT !.entries = [n \in DOMAIN file.entries \cup {name} |->
                                 IF n = name THEN data ELSE file.entries[n]]]

IsArchive(file) == file.kind = "zip" /\ file.closed

Pipelines == {"export", "main"}

\* where control goes when _inject_paint_colors returns
AfterInject == IF entry \in Pipelines THEN "rm_3mf" ELSE "return"

-----------------------------------------------------------------------------
(* Values shared by the specifications *)

NoFile == [kind |-> "absent"]

Paths == {"in_stl", "tmp_stl", "tmp_3mf", "out"}

NoColors == [none |-> TRUE, list |-> <<>>]

NoMesh == [vertices |-> <<>>, faces |-> <<>>]

\* a strip of T triangles over T + 2 vertices: triangle j uses vertices j-1, j, j+1
StripFaces(T) == [j \in 1..T |-> <<j - 1, j, j + 1>>]

StripVertexCount(T) == IF T = 0 THEN 0 ELSE T + 2

Meshes ==
    UNION {{[vertices |-> vs, faces |-> StripFaces(T)] :
                vs \in [1..StripVertexCount(T) -> ZRange]} : T \in 0..MaxTris}

LayerHeights == (0 - 1)..MaxLayerHeight

\* the variables an operation does not use
IdleArgs ==
    /\ colors = NoColors
    /\ mesh = NoMesh
    /\ touched = {}

IdleFiles ==
    /\ fs = [p \in Paths |-> NoFile]
    /\ fs0 = [p \in Paths |-> NoFile]
    /\ tmf_path = "tmp_3mf"
    /\ out_path = "out"
    /\ model_xml = Malformed
    /\ other_files = NoEntries
    /\ new_xml = Malformed

IdleEncode == extruder_idx = 0 /\ paint = <<>>

IdleColors ==
    /\ layer_height = 1
    /\ vertices = <<>>
    /\ faces = <<>>
    /\ num_colors = 0
    /\ tri_colors = <<>>

-----------------------------------------------------------------------------
(* A call of _encode_paint_color *)

InitEncode ==
    /\ entry = "encode"
    /\ pc = "call"
    /\ err = "none"
    /\ extruder_idx \in (0 - 2)..MaxExtruderIdx
    /\ paint = <<>>
    /\ IdleArgs /\ IdleFiles /\ IdleColors

EncodePaintColor ==
    /\ entry = "encode"
    /\ pc = "call"
    /\ paint' = _encode_paint_color(extruder_idx)
    /\ pc' = "return"
    /\ UNCHANGED <<entry, err, colors, layer_height, mesh, vertices, faces,
                   num_colors, tri_colors, extruder_idx, fs, tmf_path, out_path,
                   model_xml, other_files, new_xml, fs0, touched>>

NextEncode == EncodePaintColor

SpecEncode == InitEncode /\ [][NextEncode]_vars

-----------------------------------------------------------------------------
(* A call of _compute_tri_colors *)

InitColors ==
    /\ entry = "colors"
    /\ pc = "call"
    /\ err = "none"
    /\ \E m \in Meshes : vertices = m.vertices /\ faces = m.faces
    /\ layer_height \in LayerHeights
    /\ num_colors \in 0..MaxColors
    /\ tri_colors = <<>>
    /\ IdleArgs /\ IdleFiles /\ IdleEncode

ComputeTriColors ==
    /\ entry = "colors"
    /\ pc = "call"
    /\ IF ComputeRaises(faces, layer_height, num_colors)
       THEN /\ err' = "ZeroDivisionError"
            /\ pc' = "raised"
            /\ UNCHANGED tri_colors
       ELSE /\ tri_colors' = _compute_tri_colors(vertices, faces, layer_height, num_colors)
            /\ pc' = "return"
            /\ UNCHANGED err
    /\ UNCHANGED <<entry, colors, layer_height, mesh, vertices, faces,
                   num_colors, extruder_idx, paint, fs, tmf_path, out_path,
                   model_xml, other_files, new_xml, fs0, touched>>

NextColors == ComputeTriColors

SpecColors == InitColors /\ [][NextColors]_vars

-----------------------------------------------------------------------------
(* _inject_paint_colors(tmf_path, tri_colors, out_path) *)

Raise(e) == err' = e /\ pc' = "raised"

\* the reading step with out_path opened for writing in the same with statement
InjReadBaseWithOutputOpen ==
    /\ pc = "inj_read"
    /\ fs' = [fs EXCEPT ![out_path] = ZipFile(NoEntries, FALSE)]
    /\ touched' = touched \cup {out_path}
    /\ IF ~IsArchive(fs'[tmf_path])
       THEN /\ Raise(IF fs'[tmf_path].kind = "absent"
                     THEN "FileNotFoundError" ELSE "BadZipFile")
            /\ UNCHANGED <<model_xml, other_files>>
       ELSE IF ModelEntry \notin DOMAIN fs'[tmf_path].entries
       THEN /\ Raise("KeyError")
            /\ UNCHANGED <<model_xml, other_files>>
       ELSE /\ model_xml' = fs'[tmf_path].entries[ModelEntry]
            /\ other_files' = OtherEntries(fs'[tmf_path].entries)
            /\ pc' = "inj_rewrite"
            /\ UNCHANGED err
    /\ UNCHANGED <<entry, colors, layer_height, mesh, vertices, faces, num_colors,
                   tri_colors, extruder_idx, paint, tmf_path, out_path,
                   new_xml, fs0>>

\* with zipfile.ZipFile(tmf_path, "r") as zin: read the model document and
\* every other entry, then close
InjReadBase ==
    /\ pc = "inj_read"
    /\ IF ~IsArchive(fs[tmf_path])
       THEN /\ Raise(IF fs[tmf_path].kind = "absent"
                     THEN "FileNotFoundError" ELSE "BadZipFile")
            /\ UNCHANGED <<model_xml, other_files>>
       ELSE IF ModelEntry \notin DOMAIN fs[tmf_path].entries
       THEN /\ Raise("KeyError")
            /\ UNCHANGED <<model_xml, other_files>>
       ELSE /\ model_xml' = fs[tmf_path].entries[ModelEntry]
            /\ other_files' = OtherEntries(fs[tmf_path].entries)
            /\ pc' = "inj_rewrite"
            /\ UNCHANGED err
    /\ UNCHANGED <<entry, colors, layer_height, mesh, vertices, faces, num_colors,
                   tri_colors, extruder_idx, paint, fs, tmf_path, out_path,
                   new_xml, fs0, touched>>

\* ET.fromstring, the painting loop, the metadata element, ET.tostring
InjRewrite ==
    /\ pc = "inj_rewrite"
    /\ IF ~model_xml.wf
       THEN /\ Raise("ParseError")
            /\ UNCHANGED new_xml
       ELSE /\ new_xml' = WellFormed(RewriteModel(model_xml.elems, tri_colors))
            /\ pc' = "inj_open_out"
            /\ UNCHANGED err
    /\ UNCHANGED <<entry, colors, layer_height, mesh, vertices, faces, num_colors,
                   tri_colors, extruder_idx, paint, fs, tmf_path, out_path,
                   model_xml, other_files, fs0, touched>>

\* zipfile.ZipFile(out_path, "w", ZIP_DEFLATED): creates or truncates out_path
InjOpenOut ==
    /\ pc = "inj_open_out"
    /\ \E ok \in BOOLEAN :
        IF ok
        THEN /\ fs' = [fs EXCEPT ![out_path] = ZipFile(NoEntries, FALSE)]
             /\ touched' = touched \cup {out_path}
             /\ pc' = "inj_write_model"
             /\ UNCHANGED err
        ELSE /\ Raise("OSError")
             /\ UNCHANGED <<fs, touched>>
    /\ UNCHANGED <<entry, colors, layer_height, mesh, vertices, faces, num_colors,
                   tri_colors, extruder_idx, paint, tmf_path, out_path,
                   model_xml, other_files, new_xml, fs0>>

\* a write into zout fails: the with block closes zout on the way out, which
\* may or may not manage to write the central directory
InjWriteFails ==
    /\ Raise("OSError")
    /\ \E c \in BOOLEAN : fs' = [fs EXCEPT ![out_path].closed = c]

\* zout.writestr("3D/3dmodel.model", new_xml)
InjWriteModel ==
    /\ pc = "inj_write_model"
    /\ \/ /\ fs' = [fs EXCEPT ![out_path] = WriteStr(@, ModelEntry, new_xml)]
          /\ pc' = "inj_write_others"
          /\ UNCHANGED err
       \/ InjWriteFails
    /\ UNCHANGED <<entry, colors, layer_height, mesh, vertices, faces, num_colors,
                   tri_colors, extruder_idx, paint, tmf_path, out_path,
                   model_xml, other_files, new_xml, fs0, touched>>

\* one iteration of: for name, data in other_files.items(): zout.writestr(name, data)
InjWriteOther ==
    /\ pc = "inj_write_others"
    /\ \E name \in DOMAIN other_files \ DOMAIN fs[out_path].entries :
        \/ /\ fs' = [fs EXCEPT ![out_path] = WriteStr(@, name, other_files[name])]
           /\ UNCHANGED <<pc, err>>
        \/ InjWriteFails
    /\ UNCHANGED <<entry, colors, layer_height, mesh, vertices, faces, num_colors,
                   tri_colors, extruder_idx, paint, tmf_path, out_path,
                   model_xml, other_files, new_xml, fs0, touched>>

\* the loop is over: leaving the with block closes zout
InjClose ==
    /\ pc = "inj_write_others"
    /\ DOMAIN other_files \subseteq DOMAIN fs[out_path].entries
    /\ fs' = [fs EXCEPT ![out_path].closed = TRUE]
    /\ pc' = AfterInject
    /\ UNCHANGED <<entry, err, colors, layer_height, mesh, vertices, faces,
                   num_colors, tri_colors, extruder_idx, paint, tmf_path, out_path,
                   model_xml, other_files, new_xml, fs0, touched>>

Inject ==
    \/ InjReadBase
    \/ InjRewrite
    \/ InjOpenOut
    \/ InjWriteModel
    \/ InjWriteOther
    \/ InjClose

-----------------------------------------------------------------------------
(* A direct call of _inject_paint_colors *)

MaxAssign == 3

RECURSIVE SeqsUpTo(_, _)
SeqsUpTo(S, n) ==
    IF n = 0 THEN {<<>>}
    ELSE LET shorter == SeqsUpTo(S, n - 1)
         IN  shorter \cup {Append(q, x) : q \in {r \in shorter : Len(r) = n - 1}, x \in S}

\* the documents of the base packages: a strip of T triangles at Z = 0
BaseDocuments ==
    {WellFormed(BasicModelDocument([i \in 1..StripVertexCount(T) |-> 0], StripFaces(T))) :
        T \in 0..MaxTris} \cup {Malformed}

BaseArchives ==
    {ZipFile([n \in names |-> RawBytes(n)], TRUE) : names \in SUBSET OtherEntryNames}
    \cup
    {ZipFile([n \in names \cup {ModelEntry} |->
                 IF n = ModelEntry THEN doc ELSE RawBytes(n)], TRUE) :
        names \in SUBSET OtherEntryNames, doc \in BaseDocuments}

InitInject ==
    /\ entry = "inject"
    /\ pc = "inj_read"
    /\ err = "none"
    /\ tri_colors \in SeqsUpTo(0..(MaxColors - 1), MaxAssign)
    /\ tmf_path = "tmp_3mf"
    /\ out_path \in {"out", "tmp_3mf"}
    /\ \E base \in BaseArchives \cup {NoFile}, old \in {NoFile, OldFile} :
        fs = [p \in Paths |->
                 IF p = tmf_path THEN base
                 ELSE IF p = out_path THEN old ELSE NoFile]
    /\ fs0 = fs
    /\ model_xml = Malformed
    /\ other_files = NoEntries
    /\ new_xml = Malformed
    /\ layer_height = 1
    /\ vertices = <<>>
    /\ faces = <<>>
    /\ num_colors = 0
    /\ IdleArgs /\ IdleEncode

NextInject == Inject

SpecInject == InitInject /\ [][NextInject]_vars

-----------------------------------------------------------------------------
(* export_multicolor_3mf(part, filename, layer_height, colors) and main() *)

DefaultColors == <<"#FF0000", "#0000FF">>

\* colors after "if colors is None: colors = [...]" (the argparse default in main)
EffectiveColors == IF colors.none THEN DefaultColors ELSE colors.list

\* the file _read_stl_mesh is given: the temporary STL, or args.stl
StlPath == IF entry = "main" THEN "in_stl" ELSE "tmp_stl"

\* if len(colors) < 2: raise ValueError(...)
ExportValidateColors ==
    /\ entry = "export"
    /\ pc = "validate"
    /\ IF Len(EffectiveColors) < 2
       THEN Raise("ValueError")
       ELSE pc' = "mk_stl" /\ UNCHANGED err
    /\ UNCHANGED <<entry, colors, layer_height, mesh, vertices, faces, num_colors,
                   tri_colors, extruder_idx, paint, fs, tmf_path, out_path,
                   model_xml, other_files, new_xml, fs0, touched>>

\* with tempfile.NamedTemporaryFile(suffix=".stl", delete=False) as tmp
ExportMakeTmpStl ==
    /\ entry = "export"
    /\ pc = "mk_stl"
    /\ \E ok \in BOOLEAN :
        IF ok
        THEN /\ fs' = [fs EXCEPT !["tmp_stl"] = EmptyFile]
             /\ touched' = touched \cup {"tmp_stl"}
             /\ pc' = "export_stl"
             /\ UNCHANGED err
        ELSE /\ Raise("OSError")
             /\ UNCHANGED <<fs, touched>>
    /\ UNCHANGED <<entry, colors, layer_height, mesh, vertices, faces, num_colors,
                   tri_colors, extruder_idx, paint, tmf_path, out_path,
                   model_xml, other_files, new_xml, fs0>>

\* export_stl(part, tmp_stl)
ExportStl ==
    /\ entry = "export"
    /\ pc = "export_stl"
    /\ \E ok \in BOOLEAN :
        IF ok
        THEN /\ fs' = [fs EXCEPT !["tmp_stl"] = StlFile(mesh)]
             /\ pc' = "read_stl"
             /\ UNCHANGED err
        ELSE /\ Raise("OSError")
             /\ UNCHANGED fs
    /\ UNCHANGED <<entry, colors, layer_height, mesh, vertices, faces, num_colors,
                   tri_colors, extruder_idx, paint, tmf_path, out_path,
                   model_xml, other_files, new_xml, fs0, touched>>

\* vertices, faces = _read_stl_mesh(path): the reader fails, or finds no mesh
\* object, or returns the vertices and triangles of the file
ReadStlMesh ==
    /\ entry \in Pipelines
    /\ pc = "read_stl"
    /\ \E ok \in BOOLEAN :
        IF ok /\ fs[StlPath].kind = "stl"
        THEN /\ vertices' = fs[StlPath].mesh.vertices
             /\ faces' = fs[StlPath].mesh.faces
             /\ pc' = IF entry = "export" THEN "rm_stl" ELSE "colors"
             /\ UNCHANGED err
        ELSE /\ Raise("RuntimeError")
             /\ UNCHANGED <<vertices, faces>>
    /\ UNCHANGED <<entry, colors, layer_height, mesh, num_colors,
                   tri_colors, extruder_idx, paint, fs, tmf_path, out_path,
                   model_xml, other_files, new_xml, fs0, touched>>

\* os.unlink(tmp_stl)
ExportUnlinkStl ==
    /\ entry = "export"
    /\ pc = "rm_stl"
    /\ fs' = [fs EXCEPT !["tmp_stl"] = NoFile]
    /\ pc' = "colors"
    /\ UNCHANGED <<entry, err, colors, layer_height, mesh, vertices, faces,
                   num_colors, tri_colors, extruder_idx, paint, tmf_path, out_path,
                   model_xml, other_files, new_xml, fs0, touched>>

\* tri_colors = _compute_tri_colors(vertices, faces, layer_height, len(colors))
PipelineComputeColors ==
    /\ entry \in Pipelines
    /\ pc = "colors"
    /\ num_colors' = Len(EffectiveColors)
    /\ IF ComputeRaises(faces, layer_height, num_colors')
       THEN /\ Raise("ZeroDivisionError")
            /\ UNCHANGED tri_colors
       ELSE /\ tri_colors' = _compute_tri_colors(vertices, faces, layer_height, num_colors')
            /\ pc' = "mk_3mf"
            /\ UNCHANGED err
    /\ UNCHANGED <<entry, colors, layer_height, mesh, vertices, faces,
                   extruder_idx, paint, fs, tmf_path, out_path,
                   model_xml, other_files, new_xml, fs0, touched>>

\* with tempfile.NamedTemporaryFile(suffix=".3mf", delete=False) as tmp
MakeTmp3mf ==
    /\ entry \in Pipelines
    /\ pc = "mk_3mf"
    /\ \E ok \in BOOLEAN :
        IF ok
        THEN /\ fs' = [fs EXCEPT !["tmp_3mf"] = EmptyFile]
             /\ touched' = touched \cup {"tmp_3mf"}
             /\ pc' = "write_basic"
             /\ UNCHANGED err
        ELSE /\ Raise("OSError")
             /\ UNCHANGED <<fs, touched>>
    /\ UNCHANGED <<entry, colors, layer_height, mesh, vertices, faces, num_colors,
                   tri_colors, extruder_idx, paint, tmf_path, out_path,
                   model_xml, other_files, new_xml, fs0>>

\* _write_basic_3mf(vertices, faces, tmp_3mf), then the call of
\* _inject_paint_colors(tmp_3mf, tri_colors, output)
WriteBasic3mf ==
    /\ entry \in Pipelines
    /\ pc = "write_basic"
    /\ \E ok \in BOOLEAN :
        IF ok
        THEN /\ fs' = [fs EXCEPT !["tmp_3mf"] = BasicArchive(vertices, faces)]
             /\ pc' = "inj_read"
             /\ UNCHANGED err
        ELSE /\ Raise("RuntimeError")
             /\ UNCHANGED fs
    /\ UNCHANGED <<entry, colors, layer_height, mesh, vertices, faces, num_colors,
                   tri_colors, extruder_idx, paint, tmf_path, out_path,
                   model_xml, other_files, new_xml, fs0, touched>>

\* os.unlink(tmp_3mf), and the end of the run
Unlink3mf ==
    /\ entry \in Pipelines
    /\ pc = "rm_3mf"
    /\ fs' = [fs EXCEPT !["tmp_3mf"] = NoFile]
    /\ pc' = "done"
    /\ UNCHANGED <<entry, err, colors, layer_height, mesh, vertices, faces,
                   num_colors, tri_colors, extruder_idx, paint, tmf_path, out_path,
                   model_xml, other_files, new_xml, fs0, touched>>

\* a colours argument of k entries
ColorList(k) == [i \in 1..k |-> IF i % 2 = 1 THEN "#FF0000" ELSE "#0000FF"]

\* the meshes of the pipeline runs: strips lying flat at one height
PipelineMeshes ==
    {[vertices |-> [i \in 1..StripVertexCount(T) |-> z], faces |-> StripFaces(T)] :
        T \in 0..MaxTris, z \in ZRange}

\* export_multicolor_3mf takes None or any list; argparse (nargs="+") gives
\* main at least one colour
Init ==
    /\ entry \in Pipelines
    /\ pc = IF entry = "export" THEN "validate" ELSE "read_stl"
    /\ err = "none"
    /\ colors \in {NoColors}
                  \cup {[none |-> FALSE, list |-> ColorList(k)] : k \in 0..MaxColors}
    /\ (entry = "main" => colors # NoColors /\ Len(colors.list) >= 1)
    /\ layer_height \in LayerHeights
    /\ mesh \in PipelineMeshes
    /\ vertices = <<>>
    /\ faces = <<>>
    /\ num_colors = 0
    /\ tri_colors = <<>>
    /\ tmf_path = "tmp_3mf"
    /\ out_path = "out"
    /\ \E old \in {NoFile, OldFile} :
        fs = [p \in Paths |->
                 IF p = "out" THEN old
                 ELSE IF p = "in_stl" /\ entry = "main" THEN StlFile(mesh)
                 ELSE NoFile]
    /\ fs0 = fs
    /\ model_xml = Malformed
    /\ other_files = NoEntries
    /\ new_xml = Malformed
    /\ touched = {}
    /\ IdleEncode

Next ==
    \/ ExportValidateColors
    \/ ExportMakeTmpStl
    \/ ExportStl
    \/ ReadStlMesh
    \/ ExportUnlinkStl
    \/ PipelineComputeColors
    \/ MakeTmp3mf
    \/ WriteBasic3mf
    \/ Inject
    \/ Unlink3mf

Spec == Init /\ [][Next]_vars

(*=========================== PROPERTIES ==================================*)

\* value of one uppercase hexadecimal digit; 16 for any other character
HexDigitValue(ch) ==
    CASE ch = "0" -> 0 [] ch = "1" -> 1 [] ch = "2" -> 2 [] ch = "3" -> 3
      [] ch = "4" -> 4 [] ch = "5" -> 5 [] ch = "6" -> 6 [] ch = "7" -> 7
      [] ch = "8" -> 8 [] ch = "9" -> 9 [] ch = "A" -> 10 [] ch = "B" -> 11
      [] ch = "C" -> 12 [] ch = "D" -> 13 [] ch = "E" -> 14 [] ch = "F" -> 15
      [] OTHER -> 16

RECURSIVE HexValue(_)
HexValue(txt) ==
    IF txt = <<>> THEN 0
    ELSE 16 * HexValue(SubSeq(txt, 1, Len(txt) - 1)) + HexDigitValue(txt[Len(txt)])

\* non-empty, uppercase hexadecimal digits only, no leading zero unless it is "0"
IsUnpaddedUpperHex(txt) ==
    /\ Len(txt) >= 1
    /\ \A i \in 1..Len(txt) : HexDigitValue(txt[i]) < 16
    /\ (Len(txt) > 1 => txt[1] # "0")

\* three times the centroid Z of triangle i of the mesh held in vertices, faces
Centroid3(i) ==
    vertices[faces[i][1] + 1] + vertices[faces[i][2] + 1] + vertices[faces[i][3] + 1]

ColorsReturned ==
    entry = "colors" /\ pc = "return" /\ layer_height > 0 /\ num_colors >= 2

InjectReturned == entry = "inject" /\ pc = "return"

IsTriangleTag(e) == e.tag = "triangle"

\* the triangle elements of the model document of an archive, in document order
TrianglesOf(file) == SelectSeq(file.entries[ModelEntry].elems, IsTriangleTag)

BadConfiguration == Len(EffectiveColors) < 2 \/ layer_height <= 0

PipelineExited == entry \in Pipelines /\ pc \in {"done", "raised"}

\* the encoded value is one hexadecimal digit whose low two bits are 00 and
\* whose high two bits hold extruder_idx + 1
FitsOneNibble ==
    /\ Len(paint) = 1
    /\ HexValue(paint) < 16
    /\ HexValue(paint) % 4 = 0
    /\ HexValue(paint) \div 4 = extruder_idx + 1

\* C1: for a mesh with T triangles, layer_height > 0 and num_colors >= 2,
\* _compute_tri_colors raises nothing and returns exactly T colour indices, the
\* i-th being the colour of the i-th triangle, each in 0..num_colors-1, also
\* for triangles whose centroid Z is negative.
C1_CountOrderRange ==
    (entry = "colors" /\ layer_height > 0 /\ num_colors >= 2) =>
        /\ pc # "raised"
        /\ pc = "return" =>
            /\ Len(tri_colors) = Len(faces)
            /\ \A i \in 1..Len(faces) :
                /\ tri_colors[i] \in 0..(num_colors - 1)
                /\ tri_colors[i] =
                       TriColor(vertices, faces[i], layer_height, num_colors)

\* a full-size mesh was coloured and one of its triangles lies a whole layer
\* or more below Z = 0
C1_Witness ==
    /\ ColorsReturned
    /\ Len(faces) = MaxTris
    /\ \E i \in 1..Len(faces) : Centroid3(i) <= 0 - 3 * layer_height

\* C2: for every colour index c >= 0, _encode_paint_color(c) is the unpadded
\* uppercase hexadecimal text of (c+1) << 2 = 4 * (c+1); 0 -> "4", 1 -> "8",
\* 2 -> "C", 3 -> "10".
C2_UpperHexOfShiftedState ==
    (entry = "encode" /\ pc = "return" /\ extruder_idx >= 0) =>
        /\ IsUnpaddedUpperHex(paint)
        /\ HexValue(paint) = 4 * (extruder_idx + 1)
        /\ (extruder_idx = 0 => paint = <<"4">>)
        /\ (extruder_idx = 1 => paint = <<"8">>)
        /\ (extruder_idx = 2 => paint = <<"C">>)
        /\ (extruder_idx = 3 => paint = <<"1", "0">>)

\* index 3 was encoded, as the two characters "10"
C2_Witness ==
    entry = "encode" /\ pc = "return" /\ extruder_idx = 3 /\ paint = <<"1", "0">>

\* C3: after _inject_paint_colors on a base document with M (so far unpainted)
\* triangle elements and an assignment of length N, the output document has
\* the same M triangle elements in the same order; the one at position i
\* carries paint_color exactly when i is among the first N, its value is then
\* the encoding of the i-th assignment entry; a shorter or longer assignment
\* is no error (the rewrite raises only for a document that is not well-formed).
C3_NthValueOnNthTriangle ==
    /\ InjectReturned =>
        LET base == TrianglesOf(fs0[tmf_path])
            out == TrianglesOf(fs[out_path])
        IN  /\ Len(out) = Len(base)
            /\ \A i \in 1..Len(out) :
                /\ ("paint_color" \in DOMAIN out[i].attrs) <=> (i <= Len(tri_colors))
                /\ \A a \in DOMAIN base[i].attrs : out[i].attrs[a] = base[i].attrs[a]
                /\ i <= Len(tri_colors) =>
                    /\ IsUnpaddedUpperHex(out[i].attrs.paint_color)
                    /\ HexValue(out[i].attrs.paint_color) = 4 * (tri_colors[i] + 1)
    /\ (entry = "inject" /\ err = "ParseError") =>
           ~fs0[tmf_path].entries[ModelEntry].wf

\* an injection returned with fewer values than triangles, the values differing
C3_Witness ==
    /\ InjectReturned
    /\ Len(TrianglesOf(fs0[tmf_path])) = 2
    /\ Len(tri_colors) = 1
    /\ "paint_color" \notin DOMAIN TrianglesOf(fs[out_path])[2].attrs

\* C4: _inject_paint_colors leaves every entry other than the model document
\* unchanged: the output archive has exactly the non-model entry names of the
\* base archive, each with the bytes it had there.
C4_OtherEntriesIdentical ==
    InjectReturned =>
        LET base == fs0[tmf_path].entries
            out == fs[out_path].entries
        IN  /\ fs[out_path].kind = "zip" /\ fs[out_path].closed
            /\ DOMAIN out \ {ModelEntry} = DOMAIN base \ {ModelEntry}
            /\ \A n \in DOMAIN base \ {ModelEntry} : out[n] = base[n]

\* an injection returned on a base archive holding both auxiliary entries
C4_Witness ==
    /\ InjectReturned
    /\ DOMAIN fs0[tmf_path].entries = OtherEntryNames \cup {ModelEntry}
    /\ Len(tri_colors) >= 1

\* C5 as stated: when any step of export_multicolor_3mf or main fails (here
\* even with a valid configuration), the file at output_path is absent or
\* exactly its content from before the run.
C5_NoPartialOutput ==
    (entry \in Pipelines /\ ~BadConfiguration /\ pc = "raised") =>
        (fs["out"] = NoFile \/ fs["out"] = fs0["out"])

\* C6 as stated: with fewer than two colours or layer_height <= 0, both
\* pipelines stop with a configuration error before any file is created or
\* written: no path is ever touched, the run never completes, and output_path
\* keeps its content.
C6_ValidatedBeforeAnyIO ==
    (entry \in Pipelines /\ BadConfiguration) =>
        /\ touched = {}
        /\ fs["out"] = fs0["out"]
        /\ pc # "done"

\* C7 as stated: when a pipeline has exited, by success or by a failure at any
\* step (here even with a valid configuration), neither the temporary STL file
\* nor the temporary base package is left.
C7_TemporariesRemoved ==
    (PipelineExited /\ ~BadConfiguration) =>
        (fs["tmp_stl"] = NoFile /\ fs["tmp_3mf"] = NoFile)

\* C8 as stated: the layer index of every triangle is floor(centroidZ /
\* layer_height), so its colour is that floor modulo num_colors; a centroid
\* of -layer_height/4 gives layer -1 and colour num_colors - 1.
C8_FloorLayerIndex ==
    ColorsReturned =>
        \A i \in 1..Len(faces) :
            /\ LayerIdx(vertices, faces[i], layer_height)
                   = Centroid3(i) \div (3 * layer_height)
            /\ tri_colors[i]
                   = (Centroid3(i) \div (3 * layer_height)) % num_colors

C10_Original ==
    (entry = "encode" /\ pc = "return" /\ extruder_idx \in 0..3) => FitsOneNibble

\* C10 amended: for every colour index c in 0..2 the encoded value fits in one
\* 4-bit unit (a single hexadecimal digit, low 2 bits 00, high 2 bits c+1);
\* for c = 3 the value is 16, which takes the two digits "10".
C10_FitsOneNibbleUpTo2 ==
    (entry = "encode" /\ pc = "return") =>
        /\ (extruder_idx \in 0..2 => FitsOneNibble)
        /\ (extruder_idx = 3 => HexValue(paint) = 16 /\ Len(paint) = 2)

\* the last index that fits one nibble was encoded
C10_Witness ==
    entry = "encode" /\ pc = "return" /\ extruder_idx = 2 /\ paint = <<"C">>

\* the base archive of a direct call lacks the model document entry
BaseModelMissing ==
    IsArchive(fs0[tmf_path]) /\ ModelEntry \notin DOMAIN fs0[tmf_path].entries

\* the base archive of a direct call holds a model document that does not parse
BaseModelMalformed ==
    /\ IsArchive(fs0[tmf_path])
    /\ ModelEntry \in DOMAIN fs0[tmf_path].entries
    /\ ~fs0[tmf_path].entries[ModelEntry].wf

\* C11: _inject_paint_colors opens out_path for writing only after the base
\* archive was read and the model document parsed and rewritten in memory:
\* until then no file is touched, and once out_path is touched the locals hold
\* the base's model document, its other entries and the rewritten document.
\* So (a) with the model entry missing or not well-formed the call raises
\* (KeyError, ParseError) with out_path never opened and every file unchanged,
\* and (b) a call with out_path equal to tmf_path returns the original content
\* with the paint attributes injected and the other entries kept.
C11_OutputOpenedAfterRewrite ==
    entry = "inject" =>
        /\ pc \in {"inj_read", "inj_rewrite", "inj_open_out"} =>
               (touched = {} /\ fs = fs0)
        /\ out_path \in touched =>
            /\ IsArchive(fs0[tmf_path])
            /\ ModelEntry \in DOMAIN fs0[tmf_path].entries
            /\ model_xml = fs0[tmf_path].entries[ModelEntry]
            /\ model_xml.wf
            /\ DOMAIN other_files = DOMAIN fs0[tmf_path].entries \ {ModelEntry}
            /\ \A n \in DOMAIN other_files : other_files[n] = fs0[tmf_path].entries[n]
            /\ new_xml.wf
            /\ Len(new_xml.elems) = Len(model_xml.elems) + 1
        /\ (BaseModelMissing \/ BaseModelMalformed) =>
            /\ touched = {}
            /\ fs = fs0
            /\ pc \in {"inj_read", "inj_rewrite", "raised"}
            /\ pc = "raised" =>
                   err = IF BaseModelMissing THEN "KeyError" ELSE "ParseError"
        /\ (pc = "return" /\ out_path = tmf_path) =>
            LET base == TrianglesOf(fs0[tmf_path])
                out == TrianglesOf(fs[tmf_path])
            IN  /\ IsArchive(fs[tmf_path])
                /\ Len(out) = Len(base)
                /\ \A i \in 1..Len(out) :
                    /\ \A a \in DOMAIN base[i].attrs : out[i].attrs[a] = base[i].attrs[a]
                    /\ ("paint_color" \in DOMAIN out[i].attrs) <=> (i <= Len(tri_colors))
                /\ \A n \in DOMAIN fs0[tmf_path].entries \ {ModelEntry} :
                    /\ n \in DOMAIN fs[tmf_path].entries
                    /\ fs[tmf_path].entries[n] = fs0[tmf_path].entries[n]

\* a call that overwrote its own input returned, with both triangles painted
C11_Witness ==
    /\ InjectReturned
    /\ out_path = tmf_path
    /\ Len(TrianglesOf(fs0[tmf_path])) = 2
    /\ Len(tri_colors) = 2
    /\ "paint_color" \in DOMAIN TrianglesOf(fs[tmf_path])[2].attrs

\* a call on a base without a parsable model document raised, with an older
\* file at out_path still in place
C11_WitnessRaised ==
    /\ entry = "inject"
    /\ pc = "raised"
    /\ err \in {"KeyError", "ParseError"}
    /\ out_path # tmf_path
    /\ fs[out_path] = OldFile

=============================================================================
